---- MODULE Spec2Model ----
(***************************************************************************)
(* Model of main2.py: the Streamlit script that fetches a price history    *)
(* for a stock ticker or a mutual-fund code, fits a Prophet model, and     *)
(* displays the forecast rows of year >= 2024 as a table and a chart.      *)
(*                                                                         *)
(* One script execution (one user interaction) is a run.  A run is split   *)
(* into the steps of the script: fetch, live price, model construction,    *)
(* fit, predict, filter + table, chart.  Dates are day ordinals counted    *)
(* from 2023-01-01 (day 0), so 2024-01-01 is day 365.                      *)
(***************************************************************************)
EXTENDS Integers, Sequences, FiniteSets, TLC

\* ------------------------------------------------------------------ bounds
\* Longest provider response (number of records) that is enumerated.
MaxRecords == 3

\* ------------------------------------------------------- program constants
\* make_future_dataframe(periods=90)
Horizon == 90
\* forecast['ds'].dt.year >= 2024
CutoffYear == 2024

\* ------------------------------------------------------------ value domain
\* A float cell of a DataFrame column: a number or NaN.
Num(n) == [isnan |-> FALSE, v |-> n]
NaN == [isnan |-> TRUE, v |-> 0]

\* A datetime cell of a DataFrame column: a timestamp (day ordinal) or NaT.
Ts(d) == [nat |-> FALSE, day |-> d]
NaT == [nat |-> TRUE, day |-> 0]

\* Calendar year of a day ordinal (2023 has 365 days, 2024 has 366).
Year(d) ==
    IF d < 0 THEN 2022
    ELSE IF d < 365 THEN 2023
    ELSE IF d < 731 THEN 2024
    ELSE 2025

\* Day ordinals the providers' records carry: 2023-07-19, 2023-07-20, 2023-12-31.
Days == {199, 200, 364}

\* The date field of a raw mutual-fund record as the provider sends it:
\* a date string, a string that is not a date, or JSON null.
RawDates ==
    [tag : {"datestr"}, day : Days] \cup
    {[tag |-> "garbage", day |-> 0], [tag |-> "null", day |-> 0]}

\* The nav field of a raw mutual-fund record: a JSON number, a string holding
\* a number, or a string that holds none.
RawNavs ==
    {[tag |-> "num", n |-> 100, s |-> ""],
     [tag |-> "str", n |-> 0, s |-> "101"],
     [tag |-> "str", n |-> 0, s |-> "bad"]}

RawRecords == [date : RawDates, nav : RawNavs]

\* All sequences over S of length at most n.
SeqUpTo(S, n) == UNION {[1..k -> S] : k \in 0..n}

\* ------------------------------------------------------------ pandas calls
\* Variant of to_numeric: a cell that fails coercion becomes 0 instead of NaN.
to_numeric_fill(nav) ==
    IF nav.tag = "num" THEN Num(nav.n)
    ELSE IF nav.s = "101" THEN Num(101)
    ELSE Num(0)

\* pd.to_numeric(x, errors='coerce') on one cell.
to_numeric(nav) ==
    IF nav.tag = "num" THEN Num(nav.n)
    ELSE IF nav.s = "101" THEN Num(101)
    ELSE NaN

\* pd.to_datetime on one cell that parses (a date string, or null -> NaT).
to_datetime(date) ==
    IF date.tag = "datestr" THEN Ts(date.day) ELSE NaT

\* pd.to_datetime(column) raises when a cell is a string that is not a date.
DateParseFails(data) == \E i \in 1..Len(data) : data[i].date.tag = "garbage"

\* df.dropna(subset=['y'])
NotNaNy(row) == ~row.y.isnan
dropna_y(rows) == SelectSeq(rows, NotNaNy)

\* ---------------------------------------------------------------- messages
NoDataMsg == "No data available for the specified mutual fund code."
NotEnoughMsg == "Not enough data points for prediction."
DateParseMsg == "Unknown datetime string format"
NetworkMsg == "Connection error"
JsonMsg == "Expecting value: line 1 column 1 (char 0)"
KeyDataMsg == "'data'"
NoneSubscriptMsg == "'NoneType' object is not subscriptable"
IndexMsg == "single positional indexer is out-of-bounds"
KeyColumnsMsg == "None of [Index(['Date', 'Close'])] are in the [columns]"
LessThanTwoMsg == "Dataframe has less than 2 non-NaN rows."
NaNInDsMsg == "Found NaN in column ds."
FitFailMsg == "Optimization terminated abnormally"
PredictFailMsg == "predict failed"
PlotFailMsg == "plot failed"

\* A DataFrame variable: None, or a frame with rows <<[ds, y], ...>>.
None == [none |-> TRUE, rows |-> <<>>]
Frame(rows) == [none |-> FALSE, rows |-> rows]

\* ------------------------------------------------- fetch_mutual_fund_data
\* The normalisation of lines 18-22 applied to a data array whose dates parse.
MFNormalize(data) ==
    dropna_y([i \in 1..Len(data) |->
                [ds |-> to_datetime(data[i].date), y |-> to_numeric(data[i].nav)]])

\* What the fund-data provider can answer: a transport failure, a body that is
\* not JSON, a JSON body without a data key, an exception whose text is empty,
\* or a JSON body with a data array.
MFResponses ==
    {[kind |-> k, data |-> <<>>] : k \in {"network", "notjson", "nodatakey", "blank"}} \cup
    {[kind |-> "json", data |-> d] : d \in SeqUpTo(RawRecords, MaxRecords)}

\* Variant of fetch_mutual_fund_data without the `if not data['data']` test.
fetch_without_empty_test(resp) ==
    IF resp.kind = "network" THEN [df |-> None, error |-> NetworkMsg]
    ELSE IF resp.kind = "notjson" THEN [df |-> None, error |-> JsonMsg]
    ELSE IF resp.kind = "nodatakey" THEN [df |-> None, error |-> KeyDataMsg]
    ELSE IF resp.kind = "blank" THEN [df |-> None, error |-> ""]
    ELSE IF DateParseFails(resp.data) THEN [df |-> None, error |-> DateParseMsg]
    ELSE IF Len(MFNormalize(resp.data)) < 2 THEN [df |-> None, error |-> NotEnoughMsg]
    ELSE [df |-> Frame(MFNormalize(resp.data)), error |-> ""]

\* fetch_mutual_fund_data: the pair (df, error) it returns for a response.
fetch_mutual_fund_data(resp) ==
    IF resp.kind = "network" THEN [df |-> None, error |-> NetworkMsg]
    ELSE IF resp.kind = "notjson" THEN [df |-> None, error |-> JsonMsg]
    ELSE IF resp.kind = "nodatakey" THEN [df |-> None, error |-> KeyDataMsg]
    ELSE IF resp.kind = "blank" THEN [df |-> None, error |-> ""]
    ELSE IF resp.data = <<>> THEN [df |-> None, error |-> NoDataMsg]
    ELSE IF DateParseFails(resp.data) THEN [df |-> None, error |-> DateParseMsg]
    ELSE IF Len(MFNormalize(resp.data)) < 2 THEN [df |-> None, error |-> NotEnoughMsg]
    ELSE [df |-> Frame(MFNormalize(resp.data)), error |-> ""]

\* --------------------------------------------------------- stock history
\* The Date cell of a yfinance history row: a timestamp in the exchange's zone.
AwareTs(d) == [day |-> d, tz |-> "Asia/Kolkata"]

\* .dt.tz_localize(None): drop the zone, keep the wall-clock date.
tz_localize_None(date) == Ts(date.day)

\* Strictly ascending sequences of days (yfinance indexes a history by date).
Ascending(s) == \A i \in 1..Len(s) - 1 : s[i] < s[i + 1]
AscendingDays == {s \in SeqUpTo(Days, MaxRecords) : Ascending(s)}

\* The histories the market-data service can return for dates ds: every row
\* has a Close that is a number or NaN.
HistoriesOn(ds) ==
    [1..Len(ds) -> {Num(100), NaN}]

\* What stock.history(period="5y", interval="1d") can do: raise, return an
\* empty frame that has no Date/Close columns, or return a frame of rows.
StockResponses ==
    {[kind |-> k, dates |-> <<>>, closes |-> <<>>] : k \in {"raise", "nocols"}} \cup
    UNION {{[kind |-> "frame", dates |-> ds, closes |-> cs] : cs \in HistoriesOn(ds)} :
            ds \in AscendingDays}

\* Lines 68-71: reset_index, select Date and Close, strip the zone, rename.
StockNormalize(resp) ==
    [i \in 1..Len(resp.dates) |->
        [ds |-> tz_localize_None(AwareTs(resp.dates[i])), y |-> resp.closes[i]]]

\* ----------------------------------------------------------------- Prophet
\* The holiday table make_holidays_df(year_list=[2021..2024], country='IN').
make_holidays_df == "IN:2021,2022,2023,2024"

\* Prophet's constructor defaults.
ProphetDefaults ==
    [seasonality_mode |-> "additive",
     changepoint_prior_scale |-> "0.05",
     yearly_seasonality |-> "auto",
     weekly_seasonality |-> "auto",
     daily_seasonality |-> "auto",
     holidays |-> "None",
     seasonalities |-> {},
     history_dates |-> <<>>]

\* Prophet(**args): a new model object; every argument not given is a default.
Prophet(args) ==
    [k \in DOMAIN ProphetDefaults |->
        IF k \in DOMAIN args THEN args[k] ELSE ProphetDefaults[k]]

\* model.add_seasonality(name=...)
add_seasonality(m, name) == [m EXCEPT !.seasonalities = @ \cup {name}]

\* The keyword arguments of the first Prophet(...) call of each branch.
SeasonalityArgs ==
    [seasonality_mode |-> "multiplicative",
     changepoint_prior_scale |-> "0.05",
     yearly_seasonality |-> "True",
     weekly_seasonality |-> "True",
     daily_seasonality |-> "False"]

\* The model object that is bound to `model` when fit is called, stock branch:
\* the seasonality-configured object is built and extended, then `model` is
\* rebound to a second object built from the holiday table only.
StockModel ==
    LET first == add_seasonality(add_seasonality(Prophet(SeasonalityArgs), "monthly"), "weekly")
        holidays == make_holidays_df
    IN  Prophet([holidays |-> holidays])

\* The same for the mutual-fund branch (no add_seasonality calls there).
MFModel ==
    LET first == Prophet(SeasonalityArgs)
        holidays == make_holidays_df
    IN  Prophet([holidays |-> holidays])

NoModel == Prophet([holidays |-> "unbound"])

\* The set s of integers as an ascending sequence.
RECURSIVE SortSet(_)
SortSet(s) ==
    IF s = {} THEN <<>>
    ELSE LET m == CHOOSE x \in s : \A y \in s : x <= y
         IN  <<m>> \o SortSet(s \ {m})

\* Prophet.fit keeps the rows whose y is not null and needs two of them.
FitHistory(rows) == SelectSeq(rows, NotNaNy)
\* setup_dataframe rejects a null ds among the rows it keeps.
HasNaTds(rows) == \E i \in 1..Len(rows) : rows[i].ds.nat
\* self.history_dates: the distinct ds of the frame, sorted.
HistoryDates(rows) == SortSet({rows[i].ds.day : i \in 1..Len(rows)})

\* make_future_dataframe(periods=Horizon): the history dates followed by the
\* Horizon days after the last of them.
make_future_dataframe(m) ==
    LET last == m.history_dates[Len(m.history_dates)]
    IN  m.history_dates \o [i \in 1..Horizon |-> last + i]

\* model.predict(future): one forecast row per future date; idx is the row's
\* index label, which stands for the row's yhat, yhat_lower, yhat_upper.
predict(future) == [i \in 1..Len(future) |-> [idx |-> i - 1, ds |-> future[i]]]

\* Variant of FromCutoff: the year test is off by one year.
FromCutoff_prev_year(row) == Year(row.ds) >= CutoffYear - 1

\* forecast[forecast['ds'].dt.year >= 2024]
FromCutoff(row) == Year(row.ds) >= CutoffYear
FilterForecast(fc) == SelectSeq(fc, FromCutoff)

\* ------------------------------------------------------------------- state
VARIABLES
    pc,                 \* position of the script in the current run
    asset,              \* asset_type of the run
    raw,                \* what the provider answered in this run
    df,                 \* stock_data / mf_data
    error,              \* the error string fetch_mutual_fund_data returned
    model,              \* the object bound to `model`
    fitArg,             \* the frame model.fit was called with
    forecast,           \* forecast
    forecast_filtered,  \* forecast_filtered
    out,                \* what the page shows, in order
    stages              \* the stages this run has invoked, in order

vars == <<pc, asset, raw, df, error, model, fitArg, forecast, forecast_filtered, out, stages>>

NoResponse == [kind |-> "none", data |-> <<>>]

Shown(kind, text, rows) == [kind |-> kind, text |-> text, rows |-> rows]

\* The state of a script execution before its first statement.
Fresh ==
    /\ df = None
    /\ error = ""
    /\ model = NoModel
    /\ fitArg = None
    /\ forecast = <<>>
    /\ forecast_filtered = <<>>
    /\ out = <<>>
    /\ stages = <<>>

\* A script execution starts at the top of the script with nothing bound
\* and nothing shown.
Init ==
    /\ pc = "top"
    /\ asset = "none"
    /\ raw = NoResponse
    /\ Fresh

\* except Exception as e: st.error(...) ; the run ends.
Raise(msg) ==
    /\ out' = Append(out, Shown("error", msg, <<>>))
    /\ pc' = "done"

\* Variant of Rerun: the page of the previous run is not cleared.
Rerun_keeps_page ==
    /\ pc = "done"
    /\ pc' = "top"
    /\ asset' = "none"
    /\ raw' = NoResponse
    /\ df' = None
    /\ error' = ""
    /\ model' = NoModel
    /\ fitArg' = None
    /\ forecast' = <<>>
    /\ forecast_filtered' = <<>>
    /\ stages' = <<>>
    /\ UNCHANGED out

\* ------------------------------------------------------------ interaction
\* The next user interaction: Streamlit executes the script again from its
\* first line, in a new namespace and on a cleared page.
Rerun ==
    /\ pc = "done"
    /\ pc' = "top"
    /\ asset' = "none"
    /\ raw' = NoResponse
    /\ df' = None
    /\ error' = ""
    /\ model' = NoModel
    /\ fitArg' = None
    /\ forecast' = <<>>
    /\ forecast_filtered' = <<>>
    /\ out' = <<>>
    /\ stages' = <<>>

\* Lines 40-52: option == "Home" or "About": static text, no pipeline.
ViewPage ==
    /\ pc = "top"
    /\ \E option \in {"Home", "About"} :
        out' = Append(out, Shown("page", option, <<>>))
    /\ pc' = "done"
    /\ UNCHANGED <<asset, raw, df, error, model, fitArg, forecast, forecast_filtered, stages>>

\* ----------------------------------------------------------- stock branch
\* Lines 64-71 (and the except of 109-110): the history is fetched and shaped.
StockFetch ==
    /\ pc = "top"
    /\ asset' = "Stock"
    /\ stages' = Append(stages, "fetch")
    /\ \E resp \in StockResponses :
        /\ raw' = resp
        /\ IF resp.kind = "raise"
             THEN Raise(NetworkMsg) /\ UNCHANGED df
           ELSE IF resp.kind = "nocols"
             THEN Raise(KeyColumnsMsg) /\ UNCHANGED df
           ELSE   /\ df' = Frame(StockNormalize(resp))
                  /\ pc' = "live"
                  /\ UNCHANGED out
    /\ UNCHANGED <<error, model, fitArg, forecast, forecast_filtered>>

\* ----------------------------------------------------- mutual-fund branch
\* Line 117: mf_data, error = fetch_mutual_fund_data(fund_code)
MFFetch ==
    /\ pc = "top"
    /\ asset' = "Mutual Fund"
    /\ stages' = Append(stages, "fetch")
    /\ \E resp \in MFResponses :
        /\ raw' = resp
        /\ df' = fetch_mutual_fund_data(resp).df
        /\ error' = fetch_mutual_fund_data(resp).error
    /\ pc' = "fetched"
    /\ UNCHANGED <<model, fitArg, forecast, forecast_filtered, out>>

\* Lines 119-120: if error: st.error(...)
MFShowError ==
    /\ pc = "fetched"
    /\ error # ""
    /\ Raise(error)
    /\ UNCHANGED <<asset, raw, df, error, model, fitArg, forecast, forecast_filtered, stages>>

\* Line 121: else: the run goes on to the live price.
MFProceed ==
    /\ pc = "fetched"
    /\ error = ""
    /\ pc' = "live"
    /\ UNCHANGED <<asset, raw, df, error, model, fitArg, forecast, forecast_filtered, out, stages>>

\* -------------------------------------------------------------- both branches
\* Variant of LivePrice: the last row is taken with a slice, which does not
\* raise on an empty frame.
LivePrice_slice ==
    /\ pc = "live"
    /\ stages' = Append(stages, "live")
    /\ IF df.none THEN Raise(NoneSubscriptMsg)
       ELSE /\ out' = Append(out, Shown("live", "",
                        IF df.rows = <<>> THEN <<>> ELSE <<df.rows[Len(df.rows)]>>))
            /\ pc' = "model"
    /\ UNCHANGED <<asset, raw, df, error, model, fitArg, forecast, forecast_filtered>>

\* Lines 73-74 and 123-124: the last row's y is written as the live price.
LivePrice ==
    /\ pc = "live"
    /\ stages' = Append(stages, "live")
    /\ IF df.none THEN Raise(NoneSubscriptMsg)
       ELSE IF df.rows = <<>> THEN Raise(IndexMsg)
       ELSE /\ out' = Append(out, Shown("live", "", <<df.rows[Len(df.rows)]>>))
            /\ pc' = "model"
    /\ UNCHANGED <<asset, raw, df, error, model, fitArg, forecast, forecast_filtered>>

\* Lines 77-91 and 127-137: the model objects are constructed.
BuildModel ==
    /\ pc = "model"
    /\ stages' = Append(stages, "model")
    /\ model' = IF asset = "Stock" THEN StockModel ELSE MFModel
    /\ pc' = "fit"
    /\ UNCHANGED <<asset, raw, df, error, fitArg, forecast, forecast_filtered, out>>

\* Lines 92 and 138: model.fit(frame).
Fit ==
    /\ pc = "fit"
    /\ stages' = Append(stages, "fit")
    /\ fitArg' = df
    /\ IF Len(FitHistory(df.rows)) < 2
         THEN Raise(LessThanTwoMsg) /\ UNCHANGED model
       ELSE IF HasNaTds(FitHistory(df.rows))
         THEN Raise(NaNInDsMsg) /\ UNCHANGED model
       ELSE \E converges \in BOOLEAN :
              IF converges
                THEN /\ model' = [model EXCEPT !.history_dates = HistoryDates(df.rows)]
                     /\ pc' = "predict"
                     /\ UNCHANGED out
                ELSE Raise(FitFailMsg) /\ UNCHANGED model
    /\ UNCHANGED <<asset, raw, df, error, forecast, forecast_filtered>>

\* Lines 95-96 and 141-142: make_future_dataframe and predict.
Predict ==
    /\ pc = "predict"
    /\ stages' = Append(stages, "predict")
    /\ \E ok \in BOOLEAN :
         IF ok
           THEN /\ forecast' = predict(make_future_dataframe(model))
                /\ pc' = "filter"
                /\ UNCHANGED out
           ELSE Raise(PredictFailMsg) /\ UNCHANGED forecast
    /\ UNCHANGED <<asset, raw, df, error, model, fitArg, forecast_filtered>>

\* Lines 99-103 and 145-149: the filter, the caption and the table.
FilterAndTable ==
    /\ pc = "filter"
    /\ stages' = Append(stages, "filter")
    /\ forecast_filtered' = FilterForecast(forecast)
    /\ out' = out \o <<Shown("caption", "", <<>>),
                       Shown("table", "", FilterForecast(forecast))>>
    /\ pc' = "plot"
    /\ UNCHANGED <<asset, raw, df, error, model, fitArg, forecast>>

\* Lines 106-107 and 152-153: model.plot and st.pyplot.
Plot ==
    /\ pc = "plot"
    /\ stages' = Append(stages, "plot")
    /\ \E ok \in BOOLEAN :
         IF ok
           THEN /\ out' = Append(out, Shown("chart", "", forecast_filtered))
                /\ pc' = "done"
           ELSE Raise(PlotFailMsg)
    /\ UNCHANGED <<asset, raw, df, error, model, fitArg, forecast, forecast_filtered>>

Next ==
    \/ Rerun
    \/ ViewPage
    \/ StockFetch
    \/ MFFetch
    \/ MFShowError
    \/ MFProceed
    \/ LivePrice
    \/ BuildModel
    \/ Fit
    \/ Predict
    \/ FilterAndTable
    \/ Plot

Spec == Init /\ [][Next]_vars

\* ================================================================= claims
\* What the page shows and what the run has invoked.
ErrorsShown == SelectSeq(out, LAMBDA e : e.kind = "error")
TablesShown == SelectSeq(out, LAMBDA e : e.kind = "table")
LiveShown == \E i \in 1..Len(out) : out[i].kind = "live"
FitInvoked == \E i \in 1..Len(stages) : stages[i] = "fit"
MFJson == asset = "Mutual Fund" /\ raw.kind = "json"

\* ---------------------------------------------------------------------- C1
\* C1: on the mutual-fund path, a response whose data field is empty makes
\* fetch_mutual_fund_data return no series and the no-data message; the run
\* ends showing exactly that error, fit is never invoked and no table shown.
C1_EmptyDataIsNoDataError ==
    (MFJson /\ raw.data = <<>>) =>
        /\ df = None
        /\ error = NoDataMsg
        /\ pc \in {"fetched", "done"}
        /\ pc = "done" => out = <<Shown("error", NoDataMsg, <<>>)>>
        /\ ~FitInvoked
        /\ fitArg = None
        /\ TablesShown = <<>>

C1_Witness ==
    /\ MFJson
    /\ raw.data = <<>>
    /\ pc = "done"
    /\ Len(ErrorsShown) = 1

\* ---------------------------------------------------------------------- C3
\* C3: on the stock path, when the market-data service returns an empty
\* series the run ends showing one error, whose text no other failure of the
\* stock path produces; the live price is not written and fit is not invoked.
EmptySeriesTexts == {IndexMsg, KeyColumnsMsg}

Denotes(nav) ==
    IF nav.tag = "num" THEN {nav.n}
    ELSE IF nav.s = "101" THEN {101}
    ELSE {}

C6_KeepsExactlyNumericRecords ==
    (MFJson /\ ~df.none) =>
        LET data == raw.data
            rows == df.rows
            numeric == {i \in 1..Len(data) : Denotes(data[i].nav) # {}}
        IN  /\ \A j \in 1..Len(rows) : ~rows[j].y.isnan
            /\ \E f \in [1..Len(rows) -> 1..Len(data)] :
                 /\ \A j \in 1..Len(rows) - 1 : f[j] < f[j + 1]
                 /\ {f[j] : j \in 1..Len(rows)} = numeric
                 /\ \A j \in 1..Len(rows) :
                      /\ rows[j].y.v \in Denotes(data[f[j]].nav)
                      /\ data[f[j]].date.tag = "datestr" =>
                            (~rows[j].ds.nat /\ rows[j].ds.day = data[f[j]].date.day)
                      /\ data[f[j]].date.tag = "null" => rows[j].ds.nat

C6_Witness ==
    /\ MFJson
    /\ ~df.none
    /\ Len(df.rows) < Len(raw.data)
    /\ \E i \in 1..Len(raw.data) : raw.data[i].nav.s = "101"
    /\ \E i \in 1..Len(raw.data) : raw.data[i].nav.s = "bad"

\* ---------------------------------------------------------------------- C7
\* C7: the table that is displayed holds exactly the forecast rows whose year
\* is >= 2024, unaltered and in the forecast's order; no row dated before
\* 2024-01-01 (day 365) is displayed.
C7_TableIsForecastFrom2024 ==
    \A t \in 1..Len(out) :
        out[t].kind = "table" =>
            LET shown == out[t].rows
            IN  /\ \A j \in 1..Len(shown) :
                     /\ shown[j].ds >= 365
                     /\ forecast[shown[j].idx + 1] = shown[j]
                /\ \A j \in 1..Len(shown) - 1 : shown[j].idx < shown[j + 1].idx
                /\ \A i \in 1..Len(forecast) :
                     forecast[i].ds >= 365 =>
                        \E j \in 1..Len(shown) : shown[j] = forecast[i]

C7_Witness ==
    /\ Len(TablesShown) = 1
    /\ TablesShown[1].rows # <<>>
    /\ Len(TablesShown[1].rows) < Len(forecast)
    /\ pc = "done"

\* ---------------------------------------------------------------------- C2
\* C2: on either path fit is invoked only on a frame with at least 2 valid
\* rows (a timestamp and a numeric value); a run with fewer ends before fit.
ValidRow(row) == ~row.y.isnan /\ ~row.ds.nat

C2_FitOnlyOnTwoValidRows ==
    FitInvoked =>
        /\ ~fitArg.none
        /\ Len(SelectSeq(fitArg.rows, ValidRow)) >= 2

\* ---------------------------------------------------------------------- C4
\* C4: the series handed to fit has strictly increasing timestamps, so no
\* timestamp occurs twice, whatever the provider's order or repetitions.
C4_FitSeriesStrictlyIncreasing ==
    FitInvoked =>
        \A i \in 1..Len(fitArg.rows) - 1 :
            /\ ~fitArg.rows[i].ds.nat
            /\ ~fitArg.rows[i + 1].ds.nat
            /\ fitArg.rows[i].ds.day < fitArg.rows[i + 1].ds.day

\* ---------------------------------------------------------------------- C5
\* C5: records whose date cannot be parsed are dropped: when at least two
\* other records have a date and a numeric nav, the fetch does not fail and
\* returns exactly those other records.
GoodRecord(r) == r.date.tag = "datestr" /\ Denotes(r.nav) # {}

C5_BadDatesAreDropped ==
    (/\ MFJson
     /\ \E i \in 1..Len(raw.data) : raw.data[i].date.tag = "garbage"
     /\ Len(SelectSeq(raw.data, GoodRecord)) >= 2) =>
        /\ ~df.none
        /\ error = ""
        /\ Len(df.rows) = Len(SelectSeq(raw.data, GoodRecord))

\* ---------------------------------------------------------------------- C8
\* C8: when no forecast row survives the year filter, the run shows an
\* empty-forecast error and neither an empty table nor a chart.
C8_EmptyForecastIsAnError ==
    /\ \A t \in 1..Len(out) : out[t].kind \in {"table", "chart"} => out[t].rows # <<>>
    /\ (pc = "done" /\ forecast # <<>> /\ FilterForecast(forecast) = <<>>) =>
            Len(ErrorsShown) = 1

\* ---------------------------------------------------------------------- C9
\* C9: the model object fit is invoked on has multiplicative seasonality,
\* yearly and weekly seasonality on, daily seasonality off, changepoint
\* prior scale 0.05 and the holiday table.
C9_FitModelIsConfigured ==
    FitInvoked =>
        /\ model.seasonality_mode = "multiplicative"
        /\ model.yearly_seasonality = "True"
        /\ model.weekly_seasonality = "True"
        /\ model.daily_seasonality = "False"
        /\ model.changepoint_prior_scale = "0.05"
        /\ model.holidays = make_holidays_df

\* --------------------------------------------------------------------- C10
\* C10 as stated: a run in which a stage failed ends having shown exactly one
\* error message and no forecast table.
C10_FailedRunShowsNoTable ==
    ErrorsShown # <<>> =>
        /\ Len(ErrorsShown) = 1
        /\ pc = "done"
        /\ TablesShown = <<>>

\* C10 amended: a failure in any stage ends the run with exactly one error
\* message shown; a forecast table is shown beside it only when the failing
\* stage is the chart stage, which runs after the table is displayed; no
\* stage is invoked twice in a run; every run that ends has shown an error, a
\* static page or the chart; and from an ended run the next interaction can
\* always start, and starts from the state of a first run.
NoStageTwice == \A i, j \in 1..Len(stages) : stages[i] = stages[j] => i = j

C10_FailureHandling ==
    /\ Len(ErrorsShown) <= 1
    /\ ErrorsShown # <<>> =>
          /\ pc = "done"
          /\ out[Len(out)].kind = "error"
          /\ TablesShown # <<>> => stages[Len(stages)] = "plot"
    /\ NoStageTwice
    /\ pc = "done" => out # <<>> /\ out[Len(out)].kind \in {"error", "page", "chart"}
    /\ pc = "done" => ENABLED Rerun

C10_NextRunIsFresh == [][pc = "done" => (pc' = "top" /\ Init')]_vars

C10_Amended == []C10_FailureHandling /\ C10_NextRunIsFresh

C10_Witness ==
    /\ pc = "done"
    /\ Len(ErrorsShown) = 1
    /\ TablesShown # <<>>
    /\ stages[Len(stages)] = "plot"

====
